---- MODULE Spec2Model ----
(***************************************************************************)
(* Model of the offer sorter (src/logic/sorting.py) and of the filter      *)
(* endpoints (src/routers/filters.py) over their tables.                   *)
(*                                                                         *)
(* Python objects live in two heaps: dicts (the offer dictionaries) and    *)
(* lists (the list objects); a reference is an index into its heap.  A     *)
(* Decimal or date value is a fraction <<numerator, denominator>> with a   *)
(* positive denominator, compared by value as Python compares Decimals;    *)
(* None and the exceptions a division can raise are pairs with             *)
(* denominator 0, so that a field always holds one kind of value.          *)
(***************************************************************************)
EXTENDS Integers, Sequences, FiniteSets, TLC

VARIABLES
    dicts,      \* heap of offer dicts: reference -> record
    lists,      \* heap of list objects: reference -> sequence of dict references
    offers,     \* the caller's list (a reference into lists)
    sort_by,    \* argument of sort
    order,      \* argument of sort
    pc,         \* "call", "returned", "raised", "mutated", "pps_call", "pps_done"
    result,     \* the list sort returned (a reference into lists), 0 before it returns
    raised,     \* the exception that left sort, "none" if none
    pps,        \* return value of a direct _get_price_per_sqm call
    original,   \* history: the value of the caller's list when sort was called
    frames,     \* the locals of the sort invocations that run interleaved, per thread
    location,       \* table location: sequence of rows
    listing,        \* table listing: sequence of rows
    saved_filters,  \* table saved_filters: sequence of rows, in insertion order
    request,        \* the request the filter endpoints are answering
    response,       \* the response to it
    created         \* history: the save requests answered 201, with the filter_id of each

sorter_vars == <<dicts, lists, offers, sort_by, order, pc, result, raised, pps, original,
                 frames>>
filter_vars == <<location, listing, saved_filters, request, response, created>>

vars == <<dicts, lists, offers, sort_by, order, pc, result, raised, pps, original, frames,
          location, listing, saved_filters, request, response, created>>

\* ---------------------------------------------------------------- bounds

MaxLen == 3

\* ---------------------------------------------------------------- values

None == <<0, 0>>
ZeroDivisionError == <<-1, 0>>
TypeError == <<-2, 0>>

D(n) == <<n, 1>>

IsException(v) == v[2] = 0 /\ v[1] < 0

\* a == b for None, Decimals and dates
PyEq(a, b) ==
    IF a = None \/ b = None THEN a = b
    ELSE a[1] * b[2] = b[1] * a[2]

\* a < b for Decimals and dates (never called with None by the code)
PyLt(a, b) == a[1] * b[2] < b[1] * a[2]

\* price_total_zl / area, with what the division raises
TrueDiv(a, b) ==
    IF a = None \/ b = None THEN TypeError
    ELSE IF b[1] = 0 THEN ZeroDivisionError
    ELSE <<a[1] * b[2], a[2] * b[1]>>

Reverse(s) == [i \in 1..Len(s) |-> s[Len(s) + 1 - i]]

\* ---------------------------------------------------------------- SortType

PRICE == "price"
PRICE_PER_SQM == "price_per_sqm"
DATE_POSTED == "date_posted"
AREA == "area"
BEST_MATCH == "najtrafniejsze"

NoSortBy == "<None>"
ValueError == "ValueError"

SortTypeValues == {PRICE, PRICE_PER_SQM, DATE_POSTED, AREA, BEST_MATCH}

\* mutant: an unknown string falls back to the price criterion
SortType_default_price(s) == IF s \in SortTypeValues THEN s ELSE PRICE

\* SortType(sort_by): the member, or ValueError
SortType(s) == IF s \in SortTypeValues THEN s ELSE ValueError

\* ---------------------------------------------------------------- _get_price_per_sqm

\* mutant: the backup field is preferred to the detailed one
get_price_per_sqm_backup_first(offer) ==
    IF offer.price_sqm_zl # None THEN offer.price_sqm_zl
    ELSE IF offer.price_per_sqm_detailed # None THEN offer.price_per_sqm_detailed
    ELSE IF offer.price_total_zl # None
            /\ ~(offer.area = None \/ PyEq(offer.area, D(0)))
         THEN LET q == TrueDiv(offer.price_total_zl, offer.area)
              IN  IF IsException(q) THEN None ELSE q
    ELSE None

\* mutant: the division is guarded against a None area only, with no try
get_price_per_sqm_unguarded(offer) ==
    IF offer.price_per_sqm_detailed # None THEN offer.price_per_sqm_detailed
    ELSE IF offer.price_sqm_zl # None THEN offer.price_sqm_zl
    ELSE IF offer.price_total_zl # None /\ offer.area # None
         THEN TrueDiv(offer.price_total_zl, offer.area)
    ELSE None

get_price_per_sqm(offer) ==
    IF offer.price_per_sqm_detailed # None THEN offer.price_per_sqm_detailed
    ELSE IF offer.price_sqm_zl # None THEN offer.price_sqm_zl
    ELSE IF offer.price_total_zl # None
            /\ ~(offer.area = None \/ PyEq(offer.area, D(0)))
         THEN LET q == TrueDiv(offer.price_total_zl, offer.area)
              IN  IF IsException(q) THEN None ELSE q
    ELSE None

\* ---------------------------------------------------------------- sort_key

\* mutant: the price and area criteria read each other's field
sort_key_fields_swapped(sort_type, offer) ==
    LET value ==
            IF sort_type = PRICE THEN offer.area
            ELSE IF sort_type = AREA THEN offer.price_total_zl
            ELSE IF sort_type = DATE_POSTED THEN offer.date_posted
            ELSE IF sort_type = PRICE_PER_SQM THEN get_price_per_sqm(offer)
            ELSE None
        is_missing == value = None
    IN  <<is_missing, value>>

\* mutant: is_missing is computed as value is not None
sort_key_missing_inverted(sort_type, offer) ==
    LET value ==
            IF sort_type = PRICE THEN offer.price_total_zl
            ELSE IF sort_type = AREA THEN offer.area
            ELSE IF sort_type = DATE_POSTED THEN offer.date_posted
            ELSE IF sort_type = PRICE_PER_SQM THEN get_price_per_sqm(offer)
            ELSE None
        is_missing == value # None
    IN  <<is_missing, value>>

sort_key(sort_type, offer) ==
    LET value ==
            IF sort_type = PRICE THEN offer.price_total_zl
            ELSE IF sort_type = AREA THEN offer.area
            ELSE IF sort_type = DATE_POSTED THEN offer.date_posted
            ELSE IF sort_type = PRICE_PER_SQM THEN get_price_per_sqm(offer)
            ELSE None
        is_missing == value = None
    IN  <<is_missing, value>>

\* ---------------------------------------------------------------- list.sort

\* k1 < k2 for the (is_missing, value) tuples: the first differing item decides
TupleLt(k1, k2) ==
    IF k1[1] # k2[1] THEN (~k1[1]) /\ k2[1]
    ELSE IF ~PyEq(k1[2], k2[2]) THEN PyLt(k1[2], k2[2])
    ELSE FALSE

\* the comparison k1 < k2 raises TypeError: it reaches None < value
TupleLtRaises(k1, k2) ==
    /\ k1[1] = k2[1]
    /\ ~PyEq(k1[2], k2[2])
    /\ (k1[2] = None \/ k2[2] = None)

\* mutant: the pair goes before the pairs with an equal key (not stable)
RECURSIVE Insert_before_equal(_, _)
Insert_before_equal(run, p) ==
    IF run = << >> THEN <<p>>
    ELSE IF ~TupleLt(run[Len(run)][1], p[1])
         THEN Append(Insert_before_equal(SubSeq(run, 1, Len(run) - 1), p), run[Len(run)])
         ELSE Append(run, p)

\* mutant: a pair whose key is already in the run is dropped
RECURSIVE Insert_unique(_, _)
Insert_unique(run, p) ==
    IF run = << >> THEN <<p>>
    ELSE IF TupleLt(p[1], run[Len(run)][1])
         THEN Append(Insert_unique(SubSeq(run, 1, Len(run) - 1), p), run[Len(run)])
         ELSE IF TupleLt(run[Len(run)][1], p[1]) THEN Append(run, p)
         ELSE run

\* insert the pair p = <<key, item>> into the sorted run, after every pair
\* that is not greater than it (the stable insertion of the list sort)
RECURSIVE Insert(_, _)
Insert(run, p) ==
    IF run = << >> THEN <<p>>
    ELSE IF TupleLt(p[1], run[Len(run)][1])
         THEN Append(Insert(SubSeq(run, 1, Len(run) - 1), p), run[Len(run)])
         ELSE Append(run, p)

RECURSIVE StableSort(_)
StableSort(pairs) ==
    IF pairs = << >> THEN << >>
    ELSE Insert(StableSort(SubSeq(pairs, 1, Len(pairs) - 1)), pairs[Len(pairs)])

\* mutant: reverse=True sorts ascending and reverses the outcome
ListSort_reversed_after(items, keys, reverse) ==
    LET pairs == [i \in 1..Len(items) |-> <<keys[i], items[i]>>]
        sorted == IF reverse THEN Reverse(StableSort(pairs))
                  ELSE StableSort(pairs)
    IN  [i \in 1..Len(sorted) |-> sorted[i][2]]

\* list.sort(key=..., reverse=...) on the items, the keys already computed:
\* reverse=True reverses the list, sorts it ascending and reverses it again
ListSort(items, keys, reverse) ==
    LET pairs == [i \in 1..Len(items) |-> <<keys[i], items[i]>>]
        sorted == IF reverse THEN Reverse(StableSort(Reverse(pairs)))
                  ELSE StableSort(pairs)
    IN  [i \in 1..Len(sorted) |-> sorted[i][2]]

ListSortRaises(keys) ==
    \E i, j \in 1..Len(keys) : i # j /\ TupleLtRaises(keys[i], keys[j])

\* ---------------------------------------------------------------- deepcopy

\* mutant: a shallow copy, a new list object holding the dicts of l
shallow_copy(ds, ls, l) ==
    [dicts |-> ds, lists |-> Append(ls, ls[l]), ret |-> Len(ls) + 1, exc |-> "none"]

\* deepcopy of the list object l: a new list object holding a new dict per
\* distinct dict of l (the memo keeps one copy per object); the Decimal and
\* date values are immutable and shared
deepcopy(ds, ls, l) ==
    LET refs == ls[l]
        Refs == {refs[i] : i \in 1..Len(refs)}
        FirstIdx(r) == CHOOSE i \in 1..Len(refs) :
                          refs[i] = r /\ \A j \in 1..(i - 1) : refs[j] # r
        Rank(r) == Cardinality({s \in Refs : FirstIdx(s) <= FirstIdx(r)})
        memo == [r \in Refs |-> Len(ds) + Rank(r)]
    IN  [dicts |-> ds \o [k \in 1..Cardinality(Refs) |->
                              ds[CHOOSE r \in Refs : Rank(r) = k]],
         lists |-> Append(ls, [i \in 1..Len(refs) |-> memo[refs[i]]]),
         ret   |-> Len(ls) + 1,
         exc   |-> "none"]

\* ---------------------------------------------------------------- OfferSorter.sort

\* mutant: the order is compared without regard to case
sort_order_caseless(ds, ls, l, sby, ord) ==
    IF sby = NoSortBy \/ sby = BEST_MATCH THEN deepcopy(ds, ls, l)
    ELSE
    LET sorted_offers == deepcopy(ds, ls, l)
        sort_type == SortType(sby)
    IN  IF sort_type = ValueError THEN sorted_offers
        ELSE
        LET reverse == ord \in {"desc", "DESC"}
            items == sorted_offers.lists[sorted_offers.ret]
            keys == [i \in 1..Len(items) |->
                        sort_key(sort_type, sorted_offers.dicts[items[i]])]
        IN  IF \E i \in 1..Len(keys) : IsException(keys[i][2])
            THEN [sorted_offers EXCEPT !.ret = 0, !.exc = "ZeroDivisionError"]
            ELSE IF ListSortRaises(keys)
            THEN [sorted_offers EXCEPT !.ret = 0, !.exc = "TypeError"]
            ELSE [sorted_offers EXCEPT
                     !.lists[sorted_offers.ret] = ListSort(items, keys, reverse)]

\* sort(offers, sort_by, order) on the heaps ds, ls: the heaps after the call,
\* the reference returned (0 if the call raised) and the exception raised
sort(ds, ls, l, sby, ord) ==
    IF sby = NoSortBy \/ sby = BEST_MATCH THEN deepcopy(ds, ls, l)
    ELSE
    LET sorted_offers == deepcopy(ds, ls, l)
        sort_type == SortType(sby)
    IN  IF sort_type = ValueError THEN sorted_offers
        ELSE
        LET reverse == ord = "desc"
            items == sorted_offers.lists[sorted_offers.ret]
            keys == [i \in 1..Len(items) |->
                        sort_key(sort_type, sorted_offers.dicts[items[i]])]
        IN  IF \E i \in 1..Len(keys) : IsException(keys[i][2])
            THEN [sorted_offers EXCEPT !.ret = 0, !.exc = "ZeroDivisionError"]
            ELSE IF ListSortRaises(keys)
            THEN [sorted_offers EXCEPT !.ret = 0, !.exc = "TypeError"]
            ELSE [sorted_offers EXCEPT
                     !.lists[sorted_offers.ret] = ListSort(items, keys, reverse)]

\* the value of a list object: its dicts, in order
Deref(ds, ls, l) == [i \in 1..Len(ls[l]) |-> ds[ls[l][i]]]

\* ---------------------------------------------------------------- inputs

Offer(price_total_zl, price_sqm_zl, price_per_sqm_detailed, area, date_posted) ==
    [listing_id |-> 0,
     price_total_zl |-> price_total_zl,
     price_sqm_zl |-> price_sqm_zl,
     price_per_sqm_detailed |-> price_per_sqm_detailed,
     area |-> area,
     date_posted |-> date_posted]

\* the offers the lists are drawn from: equal and missing keys for every
\* criterion, and every branch of the price-per-sqm chain
Pool ==
    { Offer(D(1), None, None, D(1), D(1)),
      Offer(D(1), None, None, D(2), D(2)),
      Offer(D(2), None, None, D(0), None),
      Offer(D(2), D(2), D(1), None, D(1)),
      Offer(None, D(2), None, D(2), D(2)),
      Offer(None, None, None, None, None) }

\* the offers _get_price_per_sqm is called on directly
FullOffers ==
    { Offer(t, s, d, a, None) :
        t \in {None, D(0), D(1), D(2)}, s \in {None, D(0), D(2)},
        d \in {None, D(0), D(3)}, a \in {None, D(0), D(1), D(2)} }

SortBys == {NoSortBy, BEST_MATCH, PRICE, PRICE_PER_SQM, DATE_POSTED, AREA, "xyz"}
Orders == {"asc", "desc", "DESC"}

\* the keys the caller assigns to in a returned offer
Fields == {"price_total_zl", "area"}

\* ---------------------------------------------------------------- the caller

\* a caller holding a list of up to MaxLen offers (listing_id is the primary
\* key) about to call sort
InitSort ==
    /\ \E n \in 0..MaxLen : \E rows \in [1..n -> Pool] :
          dicts = [i \in 1..n |-> [rows[i] EXCEPT !.listing_id = i]]
    /\ lists = << [i \in 1..Len(dicts) |-> i] >>
    /\ offers = 1
    /\ sort_by \in SortBys
    /\ order \in Orders
    /\ pc = "call"
    /\ result = 0
    /\ raised = "none"
    /\ pps = None
    /\ original = dicts
    /\ frames = << >>

\* a caller holding one offer about to call _get_price_per_sqm
InitPps ==
    /\ \E o \in FullOffers : dicts = << [o EXCEPT !.listing_id = 1] >>
    /\ lists = << <<1>> >>
    /\ offers = 1
    /\ sort_by = PRICE_PER_SQM
    /\ order = "asc"
    /\ pc = "pps_call"
    /\ result = 0
    /\ raised = "none"
    /\ pps = None
    /\ original = dicts
    /\ frames = << >>

\* no filter endpoint is in use while the sorter is exercised
FilterIdle ==
    /\ location = << >>
    /\ listing = << >>
    /\ saved_filters = << >>
    /\ request = [op |-> "none"]
    /\ response = [status |-> 0]
    /\ created = << >>

Init == (InitSort \/ InitPps) /\ FilterIdle

\* result = sorter.sort(offers, sort_by, order)
Sort ==
    /\ pc = "call"
    /\ \E r \in {sort(dicts, lists, offers, sort_by, order)} :
           /\ dicts' = r.dicts
           /\ lists' = r.lists
           /\ result' = r.ret
           /\ raised' = r.exc
           /\ pc' = IF r.exc = "none" THEN "returned" ELSE "raised"
    /\ UNCHANGED <<offers, sort_by, order, pps, original, frames>>
    /\ UNCHANGED filter_vars

\* pps = sorter._get_price_per_sqm(offer)
GetPricePerSqm ==
    /\ pc = "pps_call"
    /\ pps' = get_price_per_sqm(dicts[lists[offers][1]])
    /\ pc' = "pps_done"
    /\ UNCHANGED <<dicts, lists, offers, sort_by, order, result, raised, original, frames>>
    /\ UNCHANGED filter_vars

\* result[i][field] = value, by the caller after sort returned
SetItem(i, field, value) ==
    /\ pc = "returned"
    /\ i \in 1..Len(lists[result])
    /\ dicts' = [dicts EXCEPT ![lists[result][i]][field] = value]
    /\ pc' = "mutated"
    /\ UNCHANGED <<lists, offers, sort_by, order, result, raised, pps, original, frames>>
    /\ UNCHANGED filter_vars

\* result.pop(), by the caller after sort returned
ListPop ==
    /\ pc = "returned"
    /\ Len(lists[result]) > 0
    /\ lists' = [lists EXCEPT ![result] = SubSeq(@, 1, Len(@) - 1)]
    /\ pc' = "mutated"
    /\ UNCHANGED <<dicts, offers, sort_by, order, result, raised, pps, original, frames>>
    /\ UNCHANGED filter_vars

\* result.reverse(), by the caller after sort returned
ListReverse ==
    /\ pc = "returned"
    /\ lists' = [lists EXCEPT ![result] = Reverse(@)]
    /\ pc' = "mutated"
    /\ UNCHANGED <<dicts, offers, sort_by, order, result, raised, pps, original, frames>>
    /\ UNCHANGED filter_vars

Next ==
    \/ Sort
    \/ GetPricePerSqm
    \/ \E i \in 1..MaxLen, f \in Fields : SetItem(i, f, D(9))
    \/ ListPop
    \/ ListReverse

Spec == Init /\ [][Next]_vars

\* ================================================================ interleaved sorts

\* Two threads call sort on one OfferSorter.  The sorter has no attribute
\* (__init__ is pass), so all an invocation holds is its frame: the arguments
\* and the locals of sort.  The threads share the heaps.  A thread switch can
\* come between any two steps of an invocation: deepcopy copies the list item
\* by item, list.sort calls sort_key on every item and then orders the list.

MaxShared == 2

Threads == {1, 2}

\* the offers of the list both threads can be given
SharedPool ==
    { Offer(D(1), None, None, D(2), D(2)),
      Offer(D(2), D(2), D(1), None, D(1)),
      Offer(None, D(2), None, D(2), D(2)) }

\* the offers of the second list, which shares no object with the first
OtherOffers ==
    << Offer(D(2), D(2), D(1), None, D(1)),
       Offer(D(1), None, None, D(2), D(2)) >>

\* the sort_by of thread 1 and of thread 2: between them, every return of sort
ThreadSortBys == << {PRICE, "xyz"}, {NoSortBy, PRICE} >>
ThreadOrders == {"asc", "desc"}

\* the frame of a thread about to call sort(offers, sort_by, order)
Frame(l, sby, ord) ==
    [pc |-> "call", offers |-> l, sort_by |-> sby, order |-> ord,
     sorted_offers |-> 0, memo |-> {}, keys |-> << >>,
     result |-> 0, raised |-> "none"]

\* the sorter and the endpoints outside the interleaved run
NoSingleCall ==
    /\ offers = 1
    /\ sort_by = NoSortBy
    /\ order = "asc"
    /\ pc = "idle"
    /\ result = 0
    /\ raised = "none"
    /\ pps = None

\* list object 1 holds up to MaxShared offers and list object 2 holds two
\* other offers; thread 1 is given list 1, thread 2 list 1 or list 2
InitThreads ==
    /\ \E n \in 0..MaxShared : \E rows \in [1..n -> SharedPool] :
          /\ dicts = [i \in 1..(n + 2) |->
                         IF i <= n THEN [rows[i] EXCEPT !.listing_id = i]
                         ELSE [OtherOffers[i - n] EXCEPT !.listing_id = i]]
          /\ lists = << [i \in 1..n |-> i], <<n + 1, n + 2>> >>
    /\ original = <<Deref(dicts, lists, 1), Deref(dicts, lists, 2)>>
    /\ \E l \in {1, 2}, sby1 \in ThreadSortBys[1], sby2 \in ThreadSortBys[2],
          ord1, ord2 \in ThreadOrders :
          frames = <<Frame(1, sby1, ord1), Frame(l, sby2, ord2)>>
    /\ NoSingleCall
    /\ FilterIdle

\* mutant: no copy is made, sorted_offers is the caller's list
Call_in_place(t) ==
    /\ frames[t].pc = "call"
    /\ frames' = [frames EXCEPT ![t].pc = "deepcopy",
                                ![t].sorted_offers = frames[t].offers]
    /\ UNCHANGED <<dicts, lists>>
    /\ UNCHANGED <<offers, sort_by, order, pc, result, raised, pps, original>>
    /\ UNCHANGED filter_vars

\* thread t enters sort and deepcopy(offers) makes the new list object,
\* still empty
Call(t) ==
    /\ frames[t].pc = "call"
    /\ lists' = Append(lists, << >>)
    /\ frames' = [frames EXCEPT ![t].pc = "deepcopy",
                                ![t].sorted_offers = Len(lists) + 1]
    /\ UNCHANGED dicts
    /\ UNCHANGED <<offers, sort_by, order, pc, result, raised, pps, original>>
    /\ UNCHANGED filter_vars

\* deepcopy copies the next item of offers: a dict it has copied already is
\* taken from the memo, another one is copied into a new dict
DeepcopyItem(t) ==
    LET f == frames[t]
        i == Len(lists[f.sorted_offers]) + 1
    IN  /\ f.pc = "deepcopy"
        /\ i <= Len(lists[f.offers])
        /\ LET ref == lists[f.offers][i]
           IN  IF \E p \in f.memo : p[1] = ref
               THEN /\ lists' = [lists EXCEPT ![f.sorted_offers] =
                                    Append(@, (CHOOSE p \in f.memo : p[1] = ref)[2])]
                    /\ UNCHANGED <<dicts, frames>>
               ELSE /\ dicts' = Append(dicts, dicts[ref])
                    /\ lists' = [lists EXCEPT ![f.sorted_offers] =
                                    Append(@, Len(dicts) + 1)]
                    /\ frames' = [frames EXCEPT ![t].memo =
                                     f.memo \cup {<<ref, Len(dicts) + 1>>}]
        /\ UNCHANGED <<offers, sort_by, order, pc, result, raised, pps, original>>
        /\ UNCHANGED filter_vars

\* deepcopy returns: sort returns the copy if sort_by is None, BEST_MATCH or
\* no SortType, and goes on to list.sort otherwise
DeepcopyReturn(t) ==
    LET f == frames[t]
    IN  /\ f.pc = "deepcopy"
        /\ Len(lists[f.sorted_offers]) >= Len(lists[f.offers])
        /\ frames' =
              IF \/ f.sort_by = NoSortBy
                 \/ f.sort_by = BEST_MATCH
                 \/ SortType(f.sort_by) = ValueError
              THEN [frames EXCEPT ![t].pc = "returned",
                                  ![t].result = f.sorted_offers]
              ELSE [frames EXCEPT ![t].pc = "list.sort"]
        /\ UNCHANGED <<dicts, lists>>
        /\ UNCHANGED <<offers, sort_by, order, pc, result, raised, pps, original>>
        /\ UNCHANGED filter_vars

\* list.sort calls sort_key on every item of sorted_offers
SortKeys(t) ==
    LET f == frames[t]
        items == lists[f.sorted_offers]
        keys == [i \in 1..Len(items) |-> sort_key(SortType(f.sort_by), dicts[items[i]])]
    IN  /\ f.pc = "list.sort"
        /\ frames' =
              IF \E i \in 1..Len(keys) : IsException(keys[i][2])
              THEN [frames EXCEPT ![t].pc = "raised",
                                  ![t].raised = "ZeroDivisionError"]
              ELSE [frames EXCEPT ![t].pc = "keyed", ![t].keys = keys]
        /\ UNCHANGED <<dicts, lists>>
        /\ UNCHANGED <<offers, sort_by, order, pc, result, raised, pps, original>>
        /\ UNCHANGED filter_vars

\* list.sort orders sorted_offers by the keys, and sort returns it
SortReturn(t) ==
    LET f == frames[t]
        reverse == f.order = "desc"
    IN  /\ f.pc = "keyed"
        /\ IF ListSortRaises(f.keys)
           THEN /\ frames' = [frames EXCEPT ![t].pc = "raised",
                                            ![t].raised = "TypeError"]
                /\ UNCHANGED lists
           ELSE /\ lists' = [lists EXCEPT ![f.sorted_offers] =
                                ListSort(@, f.keys, reverse)]
                /\ frames' = [frames EXCEPT ![t].pc = "returned",
                                            ![t].result = f.sorted_offers]
        /\ UNCHANGED dicts
        /\ UNCHANGED <<offers, sort_by, order, pc, result, raised, pps, original>>
        /\ UNCHANGED filter_vars

NextThreads ==
    \/ \E t \in Threads : Call(t)
    \/ \E t \in Threads : DeepcopyItem(t)
    \/ \E t \in Threads : DeepcopyReturn(t)
    \/ \E t \in Threads : SortKeys(t)
    \/ \E t \in Threads : SortReturn(t)

ThreadsSpec == InitThreads /\ [][NextThreads]_vars

\* ================================================================ properties

\* the four criteria that order the list
Criteria == {PRICE, PRICE_PER_SQM, DATE_POSTED, AREA}

\* the effective price-per-area of a record, as the data model defines it
EffectivePricePerArea(o) ==
    IF o.price_per_sqm_detailed # None THEN o.price_per_sqm_detailed
    ELSE IF o.price_sqm_zl # None THEN o.price_sqm_zl
    ELSE IF o.price_total_zl # None /\ o.area # None /\ o.area[1] # 0
         THEN <<o.price_total_zl[1] * o.area[2], o.price_total_zl[2] * o.area[1]>>
    ELSE None

\* the key a criterion orders by
KeyOf(criterion, o) ==
    CASE criterion = PRICE -> o.price_total_zl
      [] criterion = AREA -> o.area
      [] criterion = DATE_POSTED -> o.date_posted
      [] criterion = PRICE_PER_SQM -> EffectivePricePerArea(o)

Missing(criterion, o) == KeyOf(criterion, o) = None

\* for present keys
Le(a, b) == a[1] * b[2] <= b[1] * a[2]

SameKey(criterion, o1, o2) ==
    \/ Missing(criterion, o1) /\ Missing(criterion, o2)
    \/ /\ ~Missing(criterion, o1)
       /\ ~Missing(criterion, o2)
       /\ Le(KeyOf(criterion, o1), KeyOf(criterion, o2))
       /\ Le(KeyOf(criterion, o2), KeyOf(criterion, o1))

\* the value of the caller's list and of the returned list
In == Deref(dicts, lists, offers)
Out == Deref(dicts, lists, result)

\* the value sort returns for the list object l under another order
SortValue(ls, l, ord) ==
    LET r == sort(dicts, ls, l, sort_by, ord)
    IN  Deref(r.dicts, r.lists, r.ret)

Returned == pc = "returned"

\* position of the record with listing_id id in the sequence s
PosOf(s, id) == CHOOSE i \in 1..Len(s) : s[i].listing_id = id

\* ---------------------------------------------------------------- C1
\* C1: whatever sort_by and order are, the caller's list and every record in
\* it have the value they had at the call, in every state: after sort
\* returned, and after the caller changed the returned list or a record in
\* it; the returned list and its records are objects of their own.
C1_InputUnchanged ==
    /\ In = original
    /\ result # 0 =>
          /\ result # offers
          /\ \A i \in 1..Len(lists[result]), j \in 1..Len(lists[offers]) :
                lists[result][i] # lists[offers][j]

C1_Witness ==
    /\ pc = "mutated"
    /\ sort_by = PRICE
    /\ Len(original) >= 2
    /\ Out # original
    /\ \E i \in 1..Len(Out) : Out[i].price_total_zl = D(9)

\* ---------------------------------------------------------------- C2
\* C2: for each of the four criteria, the records of the result whose key is
\* present are in non-decreasing key order for order asc and in
\* non-increasing key order for order desc.
C2_PresentKeysOrdered ==
    (Returned /\ sort_by \in Criteria /\ order \in {"asc", "desc"}) =>
        \A i, j \in 1..Len(Out) :
            (i < j /\ ~Missing(sort_by, Out[i]) /\ ~Missing(sort_by, Out[j])) =>
                IF order = "asc"
                THEN Le(KeyOf(sort_by, Out[i]), KeyOf(sort_by, Out[j]))
                ELSE Le(KeyOf(sort_by, Out[j]), KeyOf(sort_by, Out[i]))

C2_Witness ==
    /\ Returned
    /\ sort_by = PRICE_PER_SQM
    /\ order = "desc"
    /\ Len(Out) = 3
    /\ Out # original
    /\ \A i \in 1..3 : ~Missing(sort_by, Out[i])
    /\ ~SameKey(sort_by, Out[1], Out[3])

\* ---------------------------------------------------------------- C3
\* C3: for each of the four criteria, in an ascending sort no record with a
\* missing key precedes a record with a present key, and in a descending
\* sort no record with a present key precedes a record with a missing key.
C3_MissingLastOrFirst ==
    (Returned /\ sort_by \in Criteria /\ order \in {"asc", "desc"}) =>
        \A i, j \in 1..Len(Out) :
            i < j =>
                IF order = "asc"
                THEN ~(Missing(sort_by, Out[i]) /\ ~Missing(sort_by, Out[j]))
                ELSE ~(~Missing(sort_by, Out[i]) /\ Missing(sort_by, Out[j]))

C3_Witness ==
    /\ Returned
    /\ sort_by = PRICE
    /\ order = "desc"
    /\ Len(Out) = 3
    /\ ~Missing(sort_by, original[1])
    /\ Missing(sort_by, original[3])
    /\ Missing(sort_by, Out[1])
    /\ ~Missing(sort_by, Out[3])

\* ---------------------------------------------------------------- C4
\* C4 as stated: for every input list and each of the four criteria, the
\* descending result is the exact reversal of the ascending result.
C4_DescIsReversedAsc ==
    (Returned /\ sort_by \in Criteria /\ order = "desc") =>
        Out = Reverse(SortValue(lists, offers, "asc"))

NoSharedKey ==
    \A i, j \in 1..Len(original) :
        i # j => ~SameKey(sort_by, original[i], original[j])

\* C4 amended: for every input list and each of the four criteria, the
\* descending result is the exact reversal of the ascending result of the
\* reversed input (records with equal keys keep their input order in the
\* descending result too); it is the exact reversal of the ascending result
\* of the input itself when no two records of the input share a key.
C4_DescIsReversedAscOfReversed ==
    (Returned /\ sort_by \in Criteria /\ order = "desc") =>
        /\ Out = Reverse(SortValue([lists EXCEPT ![offers] = Reverse(@)], offers, "asc"))
        /\ NoSharedKey => Out = Reverse(SortValue(lists, offers, "asc"))

C4_Witness ==
    /\ Returned
    /\ sort_by = AREA
    /\ order = "desc"
    /\ Len(original) = 3
    /\ SameKey(sort_by, original[1], original[3])
    /\ ~SameKey(sort_by, original[1], original[2])
    /\ Out # original
    /\ Out # Reverse(original)

\* ---------------------------------------------------------------- C5
\* C5: for each of the four criteria and either order, two records of the
\* input with equal (is-missing, value) keys are in the result in the order
\* they have in the input.
C5_Stable ==
    (Returned /\ sort_by \in Criteria /\ order \in {"asc", "desc"}) =>
        \A i, j \in 1..Len(original) :
            (i < j /\ SameKey(sort_by, original[i], original[j])) =>
                PosOf(Out, original[i].listing_id) < PosOf(Out, original[j].listing_id)

C5_Witness ==
    /\ Returned
    /\ sort_by = DATE_POSTED
    /\ order = "desc"
    /\ Len(original) = 3
    /\ SameKey(sort_by, original[1], original[3])
    /\ ~Missing(sort_by, original[1])
    /\ ~Missing(sort_by, original[2])
    /\ ~Le(KeyOf(sort_by, original[2]), KeyOf(sort_by, original[1]))
    /\ Out = <<original[2], original[1], original[3]>>

\* ---------------------------------------------------------------- C6
\* C6: the effective price-per-area is price_per_sqm_detailed when that is
\* present, whatever the other fields hold; otherwise price_sqm_zl when that
\* is present; otherwise the quotient price_total_zl / area when
\* price_total_zl is present and area is present and not zero; otherwise it
\* is missing.
C6_FallbackChain ==
    pc = "pps_done" =>
        LET o == In[1]
        IN  IF o.price_per_sqm_detailed # None THEN pps = o.price_per_sqm_detailed
            ELSE IF o.price_sqm_zl # None THEN pps = o.price_sqm_zl
            ELSE IF o.price_total_zl # None /\ o.area # None /\ o.area[1] # 0
                 THEN /\ pps[2] > 0
                      /\ pps[1] * o.area[1] * o.price_total_zl[2]
                            = o.price_total_zl[1] * o.area[2] * pps[2]
            ELSE pps = None

C6_Witness ==
    /\ pc = "pps_done"
    /\ In[1].price_per_sqm_detailed = None
    /\ In[1].price_sqm_zl = None
    /\ In[1].price_total_zl = D(1)
    /\ In[1].area = D(2)
    /\ pps = <<1, 2>>

\* ---------------------------------------------------------------- C7
\* both price-per-area fields absent and the area zero or absent
Degenerate(o) ==
    /\ o.price_per_sqm_detailed = None
    /\ o.price_sqm_zl = None
    /\ (o.area = None \/ o.area[1] = 0)

\* C7: for a record with both price-per-area fields absent and the area zero
\* or absent the effective price-per-area is missing; a sort by
\* price-per-area of a list holding such a record raises nothing and returns,
\* with that record after every record with a present key for asc, and
\* before every one for desc.
C7_ZeroAreaIsMissing ==
    /\ (pc = "pps_done" /\ Degenerate(In[1])) => pps = None
    /\ (/\ pc \in {"returned", "raised", "mutated"}
        /\ sort_by = PRICE_PER_SQM
        /\ \E i \in 1..Len(original) : Degenerate(original[i])) =>
          /\ pc # "raised"
          /\ raised = "none"
          /\ (Returned /\ order \in {"asc", "desc"}) =>
                \A i, j \in 1..Len(Out) :
                    (Degenerate(Out[i]) /\ ~Missing(sort_by, Out[j])) =>
                        IF order = "asc" THEN j < i ELSE i < j

C7_Witness ==
    /\ Returned
    /\ sort_by = PRICE_PER_SQM
    /\ order = "asc"
    /\ Len(original) = 3
    /\ Degenerate(original[1])
    /\ original[1].area = D(0)
    /\ original[1].price_total_zl # None
    /\ ~Missing(sort_by, original[2])
    /\ ~Missing(sort_by, original[3])
    /\ Out[3] = original[1]

\* ---------------------------------------------------------------- C8
\* C8: with no criterion, with the best-match criterion or with a string that
\* is no criterion, sort raises nothing and the result holds the input
\* records in their input order, whatever the order argument is.
C8_Passthrough ==
    (sort_by \in {NoSortBy, BEST_MATCH, "xyz"} /\ pc \in {"returned", "raised"}) =>
        /\ pc = "returned"
        /\ raised = "none"
        /\ Out = original

C8_Witness ==
    /\ Returned
    /\ sort_by = "xyz"
    /\ order = "desc"
    /\ Len(original) = 3
    /\ ~Missing(PRICE, original[1])
    /\ ~Missing(PRICE, original[2])
    /\ ~Le(KeyOf(PRICE, original[2]), KeyOf(PRICE, original[1]))
    /\ Out = original

\* ---------------------------------------------------------------- C9
\* C9: for every input list, criterion and order, sorting the returned list
\* again with the same criterion and order gives a list equal to it.
C9_Idempotent ==
    Returned => SortValue(lists, result, order) = Out

C9_Witness ==
    /\ Returned
    /\ sort_by = PRICE
    /\ order = "desc"
    /\ Len(original) = 3
    /\ Out # original
    /\ SameKey(sort_by, original[1], original[2])
    /\ Missing(sort_by, original[3])

\* ---------------------------------------------------------------- C10
\* C10: the result has the length of the input and holds every input record
\* as many times as the input does.
C10_Permutation ==
    Returned =>
        /\ Len(Out) = Len(original)
        /\ \A i \in 1..Len(original) :
              Cardinality({j \in 1..Len(Out) : Out[j] = original[i]})
                = Cardinality({j \in 1..Len(original) : original[j] = original[i]})

C10_Witness ==
    /\ Returned
    /\ sort_by = AREA
    /\ order = "asc"
    /\ Len(original) = 3
    /\ Out # original
    /\ SameKey(sort_by, original[1], original[2])

\* ---------------------------------------------------------------- C28
\* C28: a sort called with an order other than the exact "desc" (the default
\* "asc", or any other string) ends without error and returns what it returns
\* for "asc": for a criterion, the present keys in non-decreasing order and
\* the records without key last
C28_OnlyDescDescends ==
    (pc \in {"returned", "raised"} /\ order # "desc") =>
        /\ pc = "returned"
        /\ raised = "none"
        /\ Out = SortValue(lists, offers, "asc")
        /\ sort_by \in Criteria =>
              \A i, j \in 1..Len(Out) :
                  i < j =>
                      /\ Missing(sort_by, Out[i]) => Missing(sort_by, Out[j])
                      /\ (~Missing(sort_by, Out[i]) /\ ~Missing(sort_by, Out[j])) =>
                             Le(KeyOf(sort_by, Out[i]), KeyOf(sort_by, Out[j]))

\* the order "DESC" on a list the order "desc" would turn round
C28_Witness ==
    /\ Returned
    /\ order = "DESC"
    /\ sort_by = PRICE
    /\ Len(original) = 3
    /\ Out # original
    /\ Out # SortValue(lists, offers, "desc")
    /\ \A i \in 1..3 : ~Missing(sort_by, Out[i])

\* ================================================================ filter endpoints
\* (src/routers/filters.py, src/schemas/filter.py, src/models/models.py)
\*
\* A str is the sequence of its characters; an int column or list item is a
\* number where it is never NULL (the keys, the room counts of a request) and
\* a fraction like the Decimals where it can be.  NoStr, NoRooms and NoRange
\* are None where a str, a list or a PriceRange is expected.

MaxListings == 2

NoStr == <<"<None>">>
NoRooms == <<-1>>
NoRange == [present |-> FALSE, min |-> None, max |-> None]

PriceRange(min, max) == [present |-> TRUE, min |-> min, max |-> max]

\* ---------------------------------------------------------------- str.strip

Whitespace == {" "}

RECURSIVE lstrip(_)
lstrip(s) == IF s # << >> /\ Head(s) \in Whitespace THEN lstrip(Tail(s)) ELSE s

RECURSIVE rstrip(_)
rstrip(s) ==
    IF s # << >> /\ s[Len(s)] \in Whitespace THEN rstrip(SubSeq(s, 1, Len(s) - 1)) ELSE s

strip(s) == rstrip(lstrip(s))

\* ---------------------------------------------------------------- SQL expressions
\* a condition evaluates on a row to true, false or NULL; WHERE keeps the rows
\* on which it is true

SqlTrue == "true"
SqlFalse == "false"
SqlNull == "null"

SqlBool(b) == IF b THEN SqlTrue ELSE SqlFalse

\* column >= value, column <= value
SqlGe(a, b) == IF a = None \/ b = None THEN SqlNull ELSE SqlBool(~PyLt(a, b))
SqlLe(a, b) == IF a = None \/ b = None THEN SqlNull ELSE SqlBool(~PyLt(b, a))

\* column.isnot(None)
SqlIsNotNull(a) == SqlBool(a # None)

\* column == value on text (the BINARY collation of SQLite)
SqlEq(a, b) == IF a = NoStr \/ b = NoStr THEN SqlNull ELSE SqlBool(a = b)

\* column.in_(values), the values being numbers
SqlIn(a, values) ==
    IF a = None THEN SqlNull
    ELSE SqlBool(\E i \in 1..Len(values) : a = D(values[i]))

and_(cs) ==
    IF \E i \in 1..Len(cs) : cs[i] = SqlFalse THEN SqlFalse
    ELSE IF \E i \in 1..Len(cs) : cs[i] = SqlNull THEN SqlNull
    ELSE SqlTrue

\* mutant: a disjunction that asks for every operand
or_every(cs) == and_(cs)

or_(cs) ==
    IF \E i \in 1..Len(cs) : cs[i] = SqlTrue THEN SqlTrue
    ELSE IF \E i \in 1..Len(cs) : cs[i] = SqlNull THEN SqlNull
    ELSE SqlFalse

\* ---------------------------------------------------------------- filter_listings

\* mutant: only the first room count is validated
validate_rooms_first_only(v) == v = NoRooms \/ v = << >> \/ ~(Head(v) < 1)

\* FilterRequest.validate_rooms
validate_rooms(v) == v = NoRooms \/ \A i \in 1..Len(v) : ~(v[i] < 1)

\* max_length of the str fields of the schemas
MaxNameLength == 255

\* Field(None, max_length=...) of an Optional[str]
max_length(s, n) == s = NoStr \/ Len(s) <= n

\* the validation of a FilterRequest
FilterRequestValid(fd) ==
    /\ max_length(fd.city, MaxNameLength)
    /\ max_length(fd.city_district, MaxNameLength)
    /\ validate_rooms(fd.rooms)

\* mutant: the max of the price_total range is not applied
price_total_conditions_min_only(fd, l) ==
    IF fd.price_total.present /\ fd.price_total.min # None
    THEN <<SqlGe(l.price_total_zl, fd.price_total.min)>> ELSE << >>

\* the conditions of the price_total range on a listing row
price_total_conditions(fd, l) ==
    IF fd.price_total.present
    THEN (IF fd.price_total.min # None
          THEN <<SqlGe(l.price_total_zl, fd.price_total.min)>> ELSE << >>)
         \o
         (IF fd.price_total.max # None
          THEN <<SqlLe(l.price_total_zl, fd.price_total.max)>> ELSE << >>)
    ELSE << >>

\* mutant: of a price_per_sqm range only the min is applied
price_per_sqm_conditions_min_only(fd, l) ==
    IF fd.price_per_sqm.present /\ fd.price_per_sqm.min # None
    THEN << or_(<< and_(<< SqlIsNotNull(l.price_sqm_zl),
                           SqlGe(l.price_sqm_zl, fd.price_per_sqm.min) >>),
                   and_(<< SqlIsNotNull(l.price_per_sqm_detailed),
                           SqlGe(l.price_per_sqm_detailed, fd.price_per_sqm.min) >>) >>) >>
    ELSE << >>

\* mutant: the range is applied to the price per square metre of the sorter,
\* which falls back on price_total_zl / area
price_per_sqm_conditions_coalesced(fd, l) ==
    IF fd.price_per_sqm.present
    THEN (IF fd.price_per_sqm.min # None
          THEN <<SqlGe(get_price_per_sqm(l), fd.price_per_sqm.min)>> ELSE << >>)
         \o
         (IF fd.price_per_sqm.max # None
          THEN <<SqlLe(get_price_per_sqm(l), fd.price_per_sqm.max)>> ELSE << >>)
    ELSE << >>

\* the condition of the price_per_sqm range on a listing row
price_per_sqm_conditions(fd, l) ==
    IF fd.price_per_sqm.present
    THEN LET price_min == fd.price_per_sqm.min
             price_max == fd.price_per_sqm.max
         IN  IF price_min # None /\ price_max # None
             THEN << or_(<< and_(<< SqlIsNotNull(l.price_sqm_zl),
                                    SqlGe(l.price_sqm_zl, price_min),
                                    SqlLe(l.price_sqm_zl, price_max) >>),
                            and_(<< SqlIsNotNull(l.price_per_sqm_detailed),
                                    SqlGe(l.price_per_sqm_detailed, price_min),
                                    SqlLe(l.price_per_sqm_detailed, price_max) >>) >>) >>
             ELSE IF price_min # None
             THEN << or_(<< and_(<< SqlIsNotNull(l.price_sqm_zl),
                                    SqlGe(l.price_sqm_zl, price_min) >>),
                            and_(<< SqlIsNotNull(l.price_per_sqm_detailed),
                                    SqlGe(l.price_per_sqm_detailed, price_min) >>) >>) >>
             ELSE IF price_max # None
             THEN << or_(<< and_(<< SqlIsNotNull(l.price_sqm_zl),
                                    SqlLe(l.price_sqm_zl, price_max) >>),
                            and_(<< SqlIsNotNull(l.price_per_sqm_detailed),
                                    SqlLe(l.price_per_sqm_detailed, price_max) >>) >>) >>
             ELSE << >>
    ELSE << >>

\* mutant: only the first room count of the list is looked for
rooms_conditions_first_only(fd, l) ==
    IF fd.rooms # NoRooms /\ Len(fd.rooms) > 0
    THEN <<SqlIn(l.rooms, <<Head(fd.rooms)>>)>> ELSE << >>

\* mutant: an empty rooms list is looked for as well
rooms_conditions_empty_kept(fd, l) ==
    IF fd.rooms # NoRooms THEN <<SqlIn(l.rooms, fd.rooms)>> ELSE << >>

\* the condition of the rooms list on a listing row
rooms_conditions(fd, l) ==
    IF fd.rooms # NoRooms /\ Len(fd.rooms) > 0
    THEN <<SqlIn(l.rooms, fd.rooms)>> ELSE << >>

\* mutant: the city is compared as it was sent
city_conditions_unstripped(fd, loc) ==
    IF fd.city # NoStr /\ strip(fd.city) # << >>
    THEN <<SqlEq(loc.city, fd.city)>> ELSE << >>

\* the condition of the city on a location row
city_conditions(fd, loc) ==
    IF fd.city # NoStr /\ strip(fd.city) # << >>
    THEN <<SqlEq(loc.city, strip(fd.city))>> ELSE << >>

\* the condition of the city district on a location row
city_district_conditions(fd, loc) ==
    IF fd.city_district # NoStr /\ strip(fd.city_district) # << >>
    THEN <<SqlEq(loc.city_district, strip(fd.city_district))>> ELSE << >>

\* the list conditions, evaluated on a row of the join
conditions(fd, l, loc) ==
    price_total_conditions(fd, l) \o price_per_sqm_conditions(fd, l)
        \o rooms_conditions(fd, l) \o city_conditions(fd, loc)
        \o city_district_conditions(fd, loc)

\* select(Listing).join(Location, Listing.location_id == Location.location_id)
RECURSIVE join(_, _)
join(ls, locs) ==
    IF ls = << >> THEN << >>
    ELSE LET l == Head(ls)
             matches == SelectSeq(locs, LAMBDA loc : loc.location_id = l.location_id)
         IN  [j \in 1..Len(matches) |-> [listing |-> l, location |-> matches[j]]]
                 \o join(Tail(ls), locs)

\* mutant: the conditions joined by OR
where_any(rows, fd) ==
    SelectSeq(rows, LAMBDA r :
        LET cs == conditions(fd, r.listing, r.location)
        IN  cs = << >> \/ or_(cs) = SqlTrue)

\* mutant: no conditions, no rows
where_nothing_unconditioned(rows, fd) ==
    SelectSeq(rows, LAMBDA r :
        LET cs == conditions(fd, r.listing, r.location)
        IN  cs # << >> /\ and_(cs) = SqlTrue)

\* query.where(and_(*conditions)), applied only if there are conditions
where(rows, fd) ==
    SelectSeq(rows, LAMBDA r :
        LET cs == conditions(fd, r.listing, r.location)
        IN  cs = << >> \/ and_(cs) = SqlTrue)

\* result.unique(): one row per Listing object
RECURSIVE unique(_)
unique(rows) ==
    IF rows = << >> THEN << >>
    ELSE LET rest == unique(SubSeq(rows, 1, Len(rows) - 1))
             r == rows[Len(rows)]
         IN  IF \E i \in 1..Len(rest) : rest[i].listing.listing_id = r.listing.listing_id
             THEN rest ELSE Append(rest, r)

\* ListingWithLocationResponse of a Listing with its location loaded
ListingWithLocationResponse(r) ==
    [listing_id |-> r.listing.listing_id,
     rooms |-> r.listing.rooms,
     area |-> r.listing.area,
     price_total_zl |-> r.listing.price_total_zl,
     price_sqm_zl |-> r.listing.price_sqm_zl,
     price_per_sqm_detailed |-> r.listing.price_per_sqm_detailed,
     location |-> [location_id |-> r.location.location_id,
                   city |-> r.location.city,
                   city_district |-> r.location.city_district]]

\* mutant: the listings come a page at a time, total counts them all
filter_listings_paged(fd, ls, locs) ==
    LET matching == where(join(ls, locs), fd)
        total == Len(matching)
        listings == IF matching = << >> THEN << >> ELSE <<Head(unique(matching))>>
    IN  [status |-> 200,
         listings |-> [i \in 1..Len(listings) |-> ListingWithLocationResponse(listings[i])],
         total |-> total]

\* the response of POST /filters/search to a valid request
filter_listings(fd, ls, locs) ==
    LET matching == where(join(ls, locs), fd)
        total == Len(matching)
        listings == unique(matching)
    IN  [status |-> 200,
         listings |-> [i \in 1..Len(listings) |-> ListingWithLocationResponse(listings[i])],
         total |-> total]

\* ---------------------------------------------------------------- the tables

Location(id, city, city_district) ==
    [location_id |-> id, city |-> city, city_district |-> city_district]

Listing(id, loc, rooms, area, total, sqm, detailed) ==
    [listing_id |-> id, location_id |-> loc, rooms |-> rooms, area |-> area,
     price_total_zl |-> total, price_sqm_zl |-> sqm, price_per_sqm_detailed |-> detailed]

\* the location table: two cities that differ in case only, a location of
\* unknown city and district, and a city without district
Locations ==
    << Location(1, <<"W">>, <<"c">>),
       Location(2, <<"w">>, <<"d">>),
       Location(3, NoStr, NoStr),
       Location(4, <<"W">>, NoStr) >>

\* the rows the listing table is filled from: the two prices per square metre
\* agree, disagree about a range, or are missing; a listing without price,
\* rooms and area; a listing with price and area and neither price per square
\* metre
ListingPool ==
    { Listing(1, 1, D(3), D(1), D(2), D(2), D(2)),
      Listing(2, 1, D(2), D(1), D(3), D(1), D(3)),
      Listing(3, 2, D(3), D(1), D(4), None, D(2)),
      Listing(4, 3, None, D(0), None, None, None),
      Listing(5, 1, D(1), D(2), D(1), D(3), None),
      Listing(6, 2, D(2), D(1), D(2), D(4), D(1)),
      Listing(7, 4, D(3), D(1), D(3), None, None) }

\* the rows of a set in the order of their key
RECURSIVE ById(_)
ById(S) ==
    IF S = {} THEN << >>
    ELSE LET last == CHOOSE x \in S : \A y \in S : y.listing_id <= x.listing_id
         IN  Append(ById(S \ {last}), last)

ListingTables == { ById(S) : S \in { T \in SUBSET ListingPool : Cardinality(T) <= MaxListings } }

\* ---------------------------------------------------------------- the requests

FilterRequest(price_total, price_per_sqm, rooms, city, city_district) ==
    [price_total |-> price_total, price_per_sqm |-> price_per_sqm, rooms |-> rooms,
     city |-> city, city_district |-> city_district]

PriceRanges ==
    { NoRange, PriceRange(None, None), PriceRange(D(2), None), PriceRange(None, D(2)),
      PriceRange(D(2), D(3)) }

RoomLists == { NoRooms, << >>, <<3>>, <<2, 3>>, <<0>> }

Cities == { NoStr, << >>, <<"W">>, <<" ", "W", " ">>, <<"w">> }

CityDistricts == { NoStr, <<" ", " ">>, <<"c", " ">> }

FilterRequests ==
    { FilterRequest(t, q, r, c, d) :
        t \in PriceRanges, q \in PriceRanges, r \in RoomLists, c \in Cities,
        d \in CityDistricts }

\* ---------------------------------------------------------------- POST /filters/search

\* the sorter is not in use while the filter endpoints are exercised
SorterIdle ==
    /\ dicts = << >>
    /\ lists = << << >> >>
    /\ offers = 1
    /\ sort_by = NoSortBy
    /\ order = "asc"
    /\ pc = "idle"
    /\ result = 0
    /\ raised = "none"
    /\ pps = None
    /\ original = << >>
    /\ frames = << >>

InitSearch ==
    /\ SorterIdle
    /\ location = Locations
    /\ listing \in ListingTables
    /\ saved_filters = << >>
    /\ request = [op |-> "none"]
    /\ response = [status |-> 0]
    /\ created = << >>

\* one request to the endpoint, from its validation to its response
FilterListings(fd) ==
    /\ request.op = "none"
    /\ request' = [op |-> "search", filter_data |-> fd]
    /\ response' = IF FilterRequestValid(fd)
                   THEN filter_listings(fd, listing, location)
                   ELSE [status |-> 422]
    /\ UNCHANGED <<location, listing, saved_filters, created>>
    /\ UNCHANGED sorter_vars

\* the response has gone to the client: the next request can come
Deliver ==
    /\ request.op # "none"
    /\ request' = [op |-> "none"]
    /\ response' = [status |-> 0]
    /\ UNCHANGED <<location, listing, saved_filters, created>>
    /\ UNCHANGED sorter_vars

NextSearch ==
    \/ \E fd \in FilterRequests : FilterListings(fd)
    \/ Deliver

SearchSpec == InitSearch /\ [][NextSearch]_vars

\* ================================================================ saved filters

MaxSaved == 2

\* ---------------------------------------------------------------- json.dumps, json.loads
\* on the texts the rooms column holds: a list of ints, an int, null, or a
\* text that is no JSON document

Digits == <<"0", "1", "2", "3", "4", "5", "6", "7", "8", "9">>

DigitChars == { Digits[i] : i \in 1..Len(Digits) }

DigitValue(c) == (CHOOSE i \in 1..Len(Digits) : Digits[i] = c) - 1

\* str(n) of an int
RECURSIVE str_nat(_)
str_nat(n) ==
    IF n < Len(Digits) THEN <<Digits[n + 1]>>
    ELSE Append(str_nat(n \div Len(Digits)), Digits[(n % Len(Digits)) + 1])

str_int(n) == IF n < 0 THEN <<"-">> \o str_nat(0 - n) ELSE str_nat(n)

\* ", ".join of the items
RECURSIVE join_items(_)
join_items(v) ==
    IF v = << >> THEN << >>
    ELSE IF Len(v) = 1 THEN str_int(Head(v))
    ELSE str_int(Head(v)) \o <<",", " ">> \o join_items(Tail(v))

\* mutant: json.dumps without separators
RECURSIVE concat_items(_)
concat_items(v) == IF v = << >> THEN << >> ELSE str_int(Head(v)) \o concat_items(Tail(v))

json_dumps_unseparated(v) == <<"[">> \o concat_items(v) \o <<"]">>

\* json.dumps of a list of ints
json_dumps(v) == <<"[">> \o join_items(v) \o <<"]">>

\* the text split at its commas
RECURSIVE split(_)
split(s) ==
    IF \A i \in 1..Len(s) : s[i] # ","
    THEN <<s>>
    ELSE LET i == CHOOSE k \in 1..Len(s) : s[k] = "," /\ \A j \in 1..(k - 1) : s[j] # ","
         IN  <<SubSeq(s, 1, i - 1)>> \o split(SubSeq(s, i + 1, Len(s)))

\* a JSON number without fraction and exponent
IsIntLiteral(t) ==
    LET body == IF t # << >> /\ Head(t) = "-" THEN Tail(t) ELSE t
    IN  /\ body # << >>
        /\ \A i \in 1..Len(body) : body[i] \in DigitChars
        /\ Len(body) > 1 => body[1] # "0"

RECURSIVE nat_value(_)
nat_value(t) ==
    IF t = << >> THEN 0
    ELSE nat_value(SubSeq(t, 1, Len(t) - 1)) * Len(Digits) + DigitValue(t[Len(t)])

int_value(t) == IF Head(t) = "-" THEN 0 - nat_value(Tail(t)) ELSE nat_value(t)

JSONDecodeError == [kind |-> "JSONDecodeError", value |-> << >>]

\* json.loads: the kind of the document and, of a list of ints or an int, its value
json_loads(s) ==
    LET t == strip(s)
    IN  IF IsIntLiteral(t) THEN [kind |-> "int", value |-> <<int_value(t)>>]
        ELSE IF t = <<"n", "u", "l", "l">> THEN [kind |-> "null", value |-> << >>]
        ELSE IF Len(t) > 1 /\ Head(t) = "[" /\ t[Len(t)] = "]"
        THEN LET inner == strip(SubSeq(t, 2, Len(t) - 1))
                 items == split(inner)
             IN  IF inner = << >> THEN [kind |-> "list", value |-> << >>]
                 ELSE IF \A i \in 1..Len(items) : IsIntLiteral(strip(items[i]))
                 THEN [kind |-> "list",
                       value |-> [i \in 1..Len(items) |-> int_value(strip(items[i]))]]
                 ELSE JSONDecodeError
        ELSE JSONDecodeError

\* ---------------------------------------------------------------- the schemas

MaxLimit == 100

SaveFilterRequest(name, price_total, price_per_sqm, rooms, city, city_district) ==
    [name |-> name, price_total |-> price_total, price_per_sqm |-> price_per_sqm,
     rooms |-> rooms, city |-> city, city_district |-> city_district]

\* the validation of a SaveFilterRequest: name is required
SaveFilterRequestValid(fd) ==
    /\ fd.name # NoStr
    /\ Len(fd.name) >= 1
    /\ max_length(fd.name, MaxNameLength)
    /\ max_length(fd.city, MaxNameLength)
    /\ max_length(fd.city_district, MaxNameLength)
    /\ validate_rooms(fd.rooms)

\* get_pagination_params: skip >= 0, 1 <= limit <= 100
PaginationValid(skip, limit) == skip >= 0 /\ limit >= 1 /\ limit <= MaxLimit

\* SavedFilterResponse does not take this value of rooms
ValidationError == <<-2>>

\* the rooms column decoded for a response
parse_rooms_json(rooms_json) ==
    IF rooms_json = NoStr \/ rooms_json = << >> THEN NoRooms
    ELSE LET v == json_loads(rooms_json)
         IN  IF v.kind = "JSONDecodeError" THEN NoRooms
             ELSE IF v.kind = "null" THEN NoRooms
             ELSE IF v.kind = "list" THEN v.value
             ELSE ValidationError

SavedFilterResponse(row) ==
    [filter_id |-> row.filter_id,
     name |-> row.name,
     price_min |-> row.price_min,
     price_max |-> row.price_max,
     price_sqm_min |-> row.price_sqm_min,
     price_sqm_max |-> row.price_sqm_max,
     rooms |-> parse_rooms_json(row.rooms),
     city |-> row.city,
     city_district |-> row.city_district,
     created_at |-> row.created_at]

\* ---------------------------------------------------------------- POST /filters/

\* the key the table gives a new row
next_filter_id(table) ==
    IF table = << >> THEN 1
    ELSE 1 + (CHOOSE m \in { table[i].filter_id : i \in 1..Len(table) } :
                  \A i \in 1..Len(table) : table[i].filter_id <= m)

\* the row save_filter adds, the clock of the database reading now
SavedFilter(fd, table, now) ==
    [filter_id |-> next_filter_id(table),
     name |-> fd.name,
     price_min |-> IF fd.price_total.present THEN fd.price_total.min ELSE None,
     price_max |-> IF fd.price_total.present THEN fd.price_total.max ELSE None,
     price_sqm_min |-> IF fd.price_per_sqm.present THEN fd.price_per_sqm.min ELSE None,
     price_sqm_max |-> IF fd.price_per_sqm.present THEN fd.price_per_sqm.max ELSE None,
     rooms |-> IF fd.rooms # NoRooms THEN json_dumps(fd.rooms) ELSE NoStr,
     city |-> fd.city,
     city_district |-> fd.city_district,
     created_at |-> now]

\* mutant: the commit leaves the new row alone in the table
commit_replacing(table, new_filter) == <<new_filter>>

\* db.add, db.commit
commit(table, new_filter) == Append(table, new_filter)

\* get_db: session.rollback() drops the row the session holds uncommitted
rollback(table, new_filter) == table

\* the calls of save_filter on the session that can raise, "none" for no failure
StoreFaults == {"none", "db.add", "db.commit", "db.refresh"}

\* the table and the response after save_filter on a valid request, the store
\* failing at the call fault: the exception leaves the handler through get_db
save_filter(fd, table, now, fault) ==
    LET committed == IF fault \in {"db.add", "db.commit"}
                     THEN rollback(table, SavedFilter(fd, table, now))
                     ELSE commit(table, SavedFilter(fd, table, now))
        new_filter == committed[Len(committed)]
        body == SavedFilterResponse(new_filter)
    IN  [table |-> committed,
         response |-> IF fault # "none"
                      THEN [status |-> 500, exception |-> fault]
                      ELSE IF body.rooms = ValidationError
                      THEN [status |-> 500]
                      ELSE [status |-> 201, body |-> body]]

\* ---------------------------------------------------------------- GET /filters/

\* mutant: the rows in the order of ORDER BY created_at ASC
AscOrders(table) ==
    { [i \in 1..Len(table) |-> table[p[i]]] :
        p \in { q \in [1..Len(table) -> 1..Len(table)] :
                   /\ \A i, j \in 1..Len(table) : q[i] = q[j] => i = j
                   /\ \A i, j \in 1..Len(table) :
                         i < j => table[q[i]].created_at <= table[q[j]].created_at } }

\* the orders in which ORDER BY created_at DESC can give the rows: rows of one
\* created_at come in any order
DescOrders(table) ==
    { [i \in 1..Len(table) |-> table[p[i]]] :
        p \in { q \in [1..Len(table) -> 1..Len(table)] :
                   /\ \A i, j \in 1..Len(table) : q[i] = q[j] => i = j
                   /\ \A i, j \in 1..Len(table) :
                         i < j => table[q[i]].created_at >= table[q[j]].created_at } }

\* OFFSET skip LIMIT limit of the ordered rows
page(rows, skip, limit) ==
    [i \in 1..(IF Len(rows) - skip > limit THEN limit
               ELSE IF Len(rows) > skip THEN Len(rows) - skip ELSE 0) |-> rows[skip + i]]

\* the response of get_saved_filters, the query giving the rows as ordered
get_saved_filters(table, ordered, skip, limit) ==
    LET total == Len(table)
        filters == page(ordered, skip, limit)
        filter_list == [i \in 1..Len(filters) |-> SavedFilterResponse(filters[i])]
    IN  IF \E i \in 1..Len(filter_list) : filter_list[i].rooms = ValidationError
        THEN [status |-> 500]
        ELSE [status |-> 200, filters |-> filter_list, total |-> total]

\* ---------------------------------------------------------------- GET /filters/{filter_id}

\* f"Filter with ID {filter_id} not found"
not_found_detail(filter_id) ==
    <<"F", "i", "l", "t", "e", "r", " ", "w", "i", "t", "h", " ", "I", "D", " ">>
        \o str_int(filter_id)
        \o <<" ", "n", "o", "t", " ", "f", "o", "u", "n", "d">>

\* mutant: an id without row is answered with the first row of the table
get_saved_filter_details_first_row(table, filter_id) ==
    LET found == SelectSeq(table, LAMBDA row : row.filter_id = filter_id)
        row == IF found = << >> THEN table ELSE found
    IN  IF row = << >> THEN [status |-> 404, detail |-> not_found_detail(filter_id)]
        ELSE IF SavedFilterResponse(Head(row)).rooms = ValidationError
        THEN [status |-> 500]
        ELSE [status |-> 200, body |-> SavedFilterResponse(Head(row))]

get_saved_filter_details(table, filter_id) ==
    LET found == SelectSeq(table, LAMBDA row : row.filter_id = filter_id)
    IN  IF found = << >> THEN [status |-> 404, detail |-> not_found_detail(filter_id)]
        ELSE IF SavedFilterResponse(Head(found)).rooms = ValidationError
        THEN [status |-> 500]
        ELSE [status |-> 200, body |-> SavedFilterResponse(Head(found))]

\* ---------------------------------------------------------------- the saved filter endpoints

\* a name one character too long
LongName == [i \in 1..(MaxNameLength + 1) |-> "x"]

SaveFilterRequests ==
    { SaveFilterRequest(<<"a">>, NoRange, NoRange, NoRooms, NoStr, NoStr),
      SaveFilterRequest(<<"b">>, PriceRange(D(2), D(3)), PriceRange(None, D(2)), <<2, 3>>,
                        <<" ", "W", " ">>, <<"c">>),
      SaveFilterRequest(<<"a">>, PriceRange(None, None), NoRange, << >>, << >>, NoStr),
      SaveFilterRequest(<<"c">>, NoRange, PriceRange(D(2), None), <<12>>, <<"w">>, NoStr),
      SaveFilterRequest(<< >>, NoRange, NoRange, NoRooms, NoStr, NoStr),
      SaveFilterRequest(NoStr, NoRange, NoRange, <<3>>, NoStr, NoStr),
      SaveFilterRequest(LongName, NoRange, NoRange, NoRooms, NoStr, NoStr),
      SaveFilterRequest(<<"d">>, NoRange, NoRange, <<3, 0>>, NoStr, NoStr) }

\* seconds the clock of the database can have moved since the last row
ClockSteps == {0, 1}

Skips == {-1, 0, 1}
Limits == {0, 1, 2, MaxLimit, MaxLimit + 1}

FilterIds == -1..(MaxSaved + 1)

\* the searches made between the requests on saved filters
SavedSearches ==
    { FilterRequest(NoRange, NoRange, r, NoStr, NoStr) : r \in { NoRooms, <<3>>, <<0>> } }

\* the first rows of the pool
SampleListings == ById({ l \in ListingPool : l.listing_id <= MaxListings })

\* texts the rooms column can hold that save_filter did not write: a cut
\* array, an int, null, the empty text
StoredRoomsTexts == { <<"[", "2">>, <<"5">>, <<"n", "u", "l", "l">>, << >> }

\* a row of the table that did not come through save_filter
StoredRow(rooms) ==
    [filter_id |-> 1, name |-> <<"z">>, price_min |-> None, price_max |-> None,
     price_sqm_min |-> None, price_sqm_max |-> None, rooms |-> rooms,
     city |-> NoStr, city_district |-> NoStr, created_at |-> 0]

\* the table when the application starts: empty, or holding a row
SavedFilterTables == { << >> } \cup { <<StoredRow(t)>> : t \in StoredRoomsTexts }

InitSaved ==
    /\ SorterIdle
    /\ location = Locations
    /\ listing = SampleListings
    /\ saved_filters \in SavedFilterTables
    /\ request = [op |-> "none"]
    /\ response = [status |-> 0]
    /\ created = << >>

\* POST /filters/, the clock of the database dt seconds after the last row,
\* the store failing at the call fault
SaveFilter(fd, dt, fault) ==
    /\ request.op = "none"
    /\ Len(saved_filters) < MaxSaved
    /\ request' = [op |-> "save", filter_data |-> fd]
    /\ IF SaveFilterRequestValid(fd)
       THEN \E r \in { save_filter(fd, saved_filters,
                                   IF saved_filters = << >> THEN dt
                                   ELSE saved_filters[Len(saved_filters)].created_at + dt,
                                   fault) } :
                /\ saved_filters' = r.table
                /\ response' = r.response
                /\ created' = IF r.response.status = 201
                              THEN Append(created, [filter_id |-> r.response.body.filter_id,
                                                    filter_data |-> fd])
                              ELSE created
       ELSE /\ response' = [status |-> 422]
            /\ UNCHANGED <<saved_filters, created>>
    /\ UNCHANGED <<location, listing>>
    /\ UNCHANGED sorter_vars

\* GET /filters/?skip=..&limit=..
GetSavedFilters(skip, limit) ==
    /\ request.op = "none"
    /\ request' = [op |-> "list", skip |-> skip, limit |-> limit]
    /\ IF PaginationValid(skip, limit)
       THEN \E ordered \in DescOrders(saved_filters) :
                response' = get_saved_filters(saved_filters, ordered, skip, limit)
       ELSE response' = [status |-> 422]
    /\ UNCHANGED <<location, listing, saved_filters, created>>
    /\ UNCHANGED sorter_vars

\* GET /filters/{filter_id}
GetSavedFilterDetails(filter_id) ==
    /\ request.op = "none"
    /\ request' = [op |-> "get", filter_id |-> filter_id]
    /\ response' = get_saved_filter_details(saved_filters, filter_id)
    /\ UNCHANGED <<location, listing, saved_filters, created>>
    /\ UNCHANGED sorter_vars

NextSaved ==
    \/ \E fd \in SaveFilterRequests, dt \in ClockSteps, fault \in StoreFaults :
          SaveFilter(fd, dt, fault)
    \/ \E skip \in Skips, limit \in Limits : GetSavedFilters(skip, limit)
    \/ \E filter_id \in FilterIds : GetSavedFilterDetails(filter_id)
    \/ \E fd \in SavedSearches : FilterListings(fd)
    \/ Deliver

SavedSpec == InitSaved /\ [][NextSaved]_vars

\* ================================================================ properties of the search

Dimensions == {"price_total", "price_per_sqm", "rooms", "city", "city_district"}

\* the specification with no constraint set
Blank == FilterRequest(NoRange, NoRange, NoRooms, NoStr, NoStr)

\* the specification that carries one dimension of fd alone, and fd without one
Only(fd, dim) == [Blank EXCEPT ![dim] = fd[dim]]
Without(fd, dim) == [fd EXCEPT ![dim] = Blank[dim]]

\* the listing ids of a search response
ListingIds(resp) == { resp.listings[i].listing_id : i \in 1..Len(resp.listings) }

\* the listing ids of the store
StoreIds == { listing[i].listing_id : i \in 1..Len(listing) }

\* a search has been answered
Searched == request.op = "search" /\ response.status = 200

\* what the search answers to fd on the present store
Result(fd) == ListingIds(filter_listings(fd, listing, location))

\* C11: the listings returned for a specification are the listings returned
\* for each of its dimensions alone, intersected over the five dimensions
C11_IntersectionOfDimensions ==
    Searched =>
        \A id \in StoreIds :
            id \in ListingIds(response)
                <=> \A dim \in Dimensions : id \in Result(Only(request.filter_data, dim))

\* two dimensions each keep a listing the other rejects
C11_Witness ==
    /\ Searched
    /\ \E d1, d2 \in Dimensions :
          /\ d1 # d2
          /\ Result(Only(request.filter_data, d1)) \ Result(Only(request.filter_data, d2)) # {}
          /\ Result(Only(request.filter_data, d2)) \ Result(Only(request.filter_data, d1)) # {}
    /\ \A dim \in Dimensions :
          ListingIds(response) # Result(Only(request.filter_data, dim))

\* C12: the specification with no constraint set is answered with every
\* listing of the store, and total is the number of listings
C12_BlankReturnsAll ==
    (Searched /\ request.filter_data = Blank) =>
        /\ ListingIds(response) = StoreIds
        /\ response.total = Len(listing)

\* the store holds a listing without price and with zero area, and another
C12_Witness ==
    /\ Searched
    /\ request.filter_data = Blank
    /\ Len(listing) > 1
    /\ \E i \in 1..Len(response.listings) :
          /\ response.listings[i].price_total_zl = None
          /\ response.listings[i].area = D(0)

\* a value lies within the bounds given, None being no bound
WithinBounds(v, range) ==
    /\ v # None
    /\ range.min # None => ~PyLt(v, range.min)
    /\ range.max # None => ~PyLt(range.max, v)

\* a range is active: a min, a max or both are given
RangeActive(range) == range.present /\ (range.min # None \/ range.max # None)

\* C13: while a price-total range is active, every listing returned has a
\* price_total_zl that is not null and lies within the bounds given
C13_PriceTotalWithinBounds ==
    (Searched /\ RangeActive(request.filter_data.price_total)) =>
        \A i \in 1..Len(response.listings) :
            WithinBounds(response.listings[i].price_total_zl, request.filter_data.price_total)

\* a range with both bounds keeps one listing and rejects one without price
C13_Witness ==
    /\ Searched
    /\ request.filter_data = [Blank EXCEPT !.price_total = PriceRange(D(2), D(3))]
    /\ Len(response.listings) = 1
    /\ \E i \in 1..Len(listing) : listing[i].price_total_zl = None

\* the row of the store with a listing id
ListingOf(id) == listing[CHOOSE i \in 1..Len(listing) : listing[i].listing_id = id]

\* C14: while a price-per-area range is active, a listing is returned exactly
\* when it passes the other dimensions and one of price_sqm_zl and
\* price_per_sqm_detailed, by itself, is not null and within the bounds given
C14_EitherPricePerSqmWithinBounds ==
    (Searched /\ RangeActive(request.filter_data.price_per_sqm)) =>
        \A id \in StoreIds :
            id \in ListingIds(response)
                <=> /\ id \in Result(Without(request.filter_data, "price_per_sqm"))
                    /\ \/ WithinBounds(ListingOf(id).price_sqm_zl,
                                       request.filter_data.price_per_sqm)
                       \/ WithinBounds(ListingOf(id).price_per_sqm_detailed,
                                       request.filter_data.price_per_sqm)

\* a listing with one field below the range and the other inside is returned,
\* a listing with the two fields on either side of the range is not
C14_Witness ==
    /\ Searched
    /\ request.filter_data = [Blank EXCEPT !.price_per_sqm = PriceRange(D(2), D(3))]
    /\ Len(listing) > Len(response.listings)
    /\ \E i \in 1..Len(response.listings) :
          /\ ~WithinBounds(response.listings[i].price_sqm_zl,
                           request.filter_data.price_per_sqm)
          /\ WithinBounds(response.listings[i].price_per_sqm_detailed,
                          request.filter_data.price_per_sqm)

\* the first present value among price_sqm_zl and then price_per_sqm_detailed
FirstPresent(l) ==
    IF l.price_sqm_zl # None THEN l.price_sqm_zl ELSE l.price_per_sqm_detailed

\* C15 (as stated): while a price-per-sqm range is active, the first present
\* value among price_sqm_zl and then price_per_sqm_detailed of every listing
\* returned is not null and lies within the bounds given
C15_FirstPresentWithinBounds ==
    (Searched /\ RangeActive(request.filter_data.price_per_sqm)) =>
        \A i \in 1..Len(response.listings) :
            WithinBounds(FirstPresent(response.listings[i]),
                         request.filter_data.price_per_sqm)

\* C15 (amended): while a price-per-sqm range is active, of every listing
\* returned price_sqm_zl or price_per_sqm_detailed is not null and lies within
\* the bounds given
C15_SomePresentWithinBounds ==
    (Searched /\ RangeActive(request.filter_data.price_per_sqm)) =>
        \A i \in 1..Len(response.listings) :
            \E field \in {"price_sqm_zl", "price_per_sqm_detailed"} :
                WithinBounds(response.listings[i][field],
                             request.filter_data.price_per_sqm)

\* a listing is returned whose price_sqm_zl is present and above the max,
\* its price_per_sqm_detailed being below it
C15_Witness ==
    /\ Searched
    /\ RangeActive(request.filter_data.price_per_sqm)
    /\ request.filter_data.price_per_sqm.min = None
    /\ \E i \in 1..Len(response.listings) :
          /\ response.listings[i].price_sqm_zl # None
          /\ PyLt(request.filter_data.price_per_sqm.max, response.listings[i].price_sqm_zl)
          /\ WithinBounds(response.listings[i].price_per_sqm_detailed,
                          request.filter_data.price_per_sqm)

\* the room counts of a request, as a set
RoomSet(rooms) == { D(rooms[i]) : i \in 1..Len(rooms) }

\* a room filter is active: a non-empty list is given
RoomsActive(fd) == fd.rooms # NoRooms /\ fd.rooms # << >>

\* C16: while a room filter R is active, the listings returned are the
\* listings that pass the other dimensions and have their rooms in R; a
\* listing with null rooms is not among them
C16_RoomsInSet ==
    (Searched /\ RoomsActive(request.filter_data)) =>
        /\ \A id \in StoreIds :
              id \in ListingIds(response)
                  <=> /\ id \in Result(Without(request.filter_data, "rooms"))
                      /\ ListingOf(id).rooms \in RoomSet(request.filter_data.rooms)
        /\ \A i \in 1..Len(response.listings) : response.listings[i].rooms # None

\* a list of two room counts keeps a listing with the second one and rejects
\* a listing with null rooms
C16_Witness ==
    /\ Searched
    /\ request.filter_data = [Blank EXCEPT !.rooms = <<2, 3>>]
    /\ \E i \in 1..Len(response.listings) : response.listings[i].rooms = D(3)
    /\ \E i \in 1..Len(listing) : listing[i].rooms = None

\* t is s with its leading and trailing whitespace removed
IsTrimOf(t, s) ==
    \E i \in 1..(Len(s) + 1), j \in 0..Len(s) :
        /\ t = SubSeq(s, i, j)
        /\ \A k \in 1..(i - 1) : s[k] \in Whitespace
        /\ \A k \in (j + 1)..Len(s) : s[k] \in Whitespace
        /\ t # << >> => (t[1] \notin Whitespace /\ t[Len(t)] \notin Whitespace)

\* a city or district filter is active: a value is given that is not blank
TextActive(s) == s # NoStr /\ ~IsTrimOf(<< >>, s)

\* the location row a listing of the store is joined with
LocationOf(id) ==
    location[CHOOSE j \in 1..Len(location) :
                 location[j].location_id = ListingOf(id).location_id]

\* C17: while a city (or district) filter is active, the listings returned are
\* the listings that pass the other dimensions and whose location has a city
\* (or district) that is not null and equals, character by character, the
\* value of the filter without its leading and trailing whitespace
C17_TrimmedExactMatch ==
    \A dim \in {"city", "city_district"} :
        (Searched /\ TextActive(request.filter_data[dim])) =>
            \A id \in StoreIds :
                id \in ListingIds(response)
                    <=> /\ id \in Result(Without(request.filter_data, dim))
                        /\ LocationOf(id)[dim] # NoStr
                        /\ IsTrimOf(LocationOf(id)[dim], request.filter_data[dim])

\* a padded city finds the listing of that city and not the listing of the
\* city that differs from it in case
C17_Witness ==
    /\ Searched
    /\ request.filter_data = [Blank EXCEPT !.city = <<" ", "W", " ">>]
    /\ Len(response.listings) = 1
    /\ response.listings[1].location.city = <<"W">>
    /\ \E id \in StoreIds : LocationOf(id).city = <<"w">>

\* a listing of the store satisfies the clause of every active dimension
Satisfies(fd, id) ==
    /\ RangeActive(fd.price_total) => WithinBounds(ListingOf(id).price_total_zl, fd.price_total)
    /\ RangeActive(fd.price_per_sqm) =>
          \/ WithinBounds(ListingOf(id).price_sqm_zl, fd.price_per_sqm)
          \/ WithinBounds(ListingOf(id).price_per_sqm_detailed, fd.price_per_sqm)
    /\ RoomsActive(fd) => ListingOf(id).rooms \in RoomSet(fd.rooms)
    /\ \A dim \in {"city", "city_district"} :
          TextActive(fd[dim]) =>
              (LocationOf(id)[dim] # NoStr /\ IsTrimOf(LocationOf(id)[dim], fd[dim]))

\* C18: total is the length of the listings array, and the array holds every
\* matching listing of the store, each once
C18_TotalIsWholeMatchingSet ==
    Searched =>
        /\ response.total = Len(response.listings)
        /\ \A i, j \in 1..Len(response.listings) :
              response.listings[i].listing_id = response.listings[j].listing_id => i = j
        /\ ListingIds(response) = { id \in StoreIds : Satisfies(request.filter_data, id) }

\* a search on two dimensions answered with more than one listing
C18_Witness ==
    /\ Searched
    /\ response.total > 1
    /\ RangeActive(request.filter_data.price_total)
    /\ RoomsActive(request.filter_data)

\* ================================================================ properties of the saved filters

\* a saved filter response carries the fields of a save request
Carries(body, fd) ==
    /\ body.name = fd.name
    /\ body.price_min = (IF fd.price_total.present THEN fd.price_total.min ELSE None)
    /\ body.price_max = (IF fd.price_total.present THEN fd.price_total.max ELSE None)
    /\ body.price_sqm_min = (IF fd.price_per_sqm.present THEN fd.price_per_sqm.min ELSE None)
    /\ body.price_sqm_max = (IF fd.price_per_sqm.present THEN fd.price_per_sqm.max ELSE None)
    /\ body.city = fd.city
    /\ body.city_district = fd.city_district
    /\ body.rooms = fd.rooms

\* C19: the response to a successful save, and the response to every get of
\* a filter_id a save returned, carry the name, the price bounds, the city and
\* the district of the save request, and its rooms list (None for none)
C19_SaveRoundTrip ==
    /\ (request.op = "save" /\ response.status = 201) =>
           Carries(response.body, request.filter_data)
    /\ request.op = "get" =>
           \A i \in 1..Len(created) :
               created[i].filter_id = request.filter_id =>
                   /\ response.status = 200
                   /\ response.body.filter_id = request.filter_id
                   /\ Carries(response.body, created[i].filter_data)

\* the get of a filter saved with two room counts and a padded city, after
\* another filter was saved
C19_Witness ==
    /\ request.op = "get"
    /\ response.status = 200
    /\ response.body.rooms = <<2, 3>>
    /\ response.body.city = <<" ", "W", " ">>
    /\ response.body.price_sqm_min = None
    /\ response.body.price_sqm_max = D(2)
    /\ \E i \in 1..Len(created) : created[i].filter_id > request.filter_id

\* the row of a filter_id holds the fields a save request gave it
RowAsCreated(row, fd) ==
    /\ Carries([row EXCEPT !.rooms = parse_rooms_json(row.rooms)], fd)
    /\ row.rooms = (IF fd.rooms = NoRooms THEN NoStr ELSE json_dumps(fd.rooms))

\* every saved filter that was created is in the table, as it was created
PresentAsCreated ==
    \A i \in 1..Len(created) :
        \E j \in 1..Len(saved_filters) :
            /\ saved_filters[j].filter_id = created[i].filter_id
            /\ RowAsCreated(saved_filters[j], created[i].filter_data)

\* a step keeps every row of the table as it is
RowsKept ==
    /\ Len(saved_filters') >= Len(saved_filters)
    /\ \A j \in 1..Len(saved_filters) : saved_filters'[j] = saved_filters[j]

\* a step that answers a get, a list or a search leaves the table as it is
ReadsKeepTable ==
    request'.op \in {"get", "list", "search"} => saved_filters' = saved_filters

\* C20: through every sequence of save, list, get and search, every saved
\* filter that was created stays in the table with the fields it was created
\* with: no step changes or removes a row, and get, list and search leave the
\* table unchanged
C20_SavedFiltersImmutable ==
    /\ []PresentAsCreated
    /\ [][RowsKept /\ ReadsKeepTable]_vars

\* two filters were saved and are listed
C20_Witness ==
    /\ Len(created) > 1
    /\ request.op = "list"
    /\ response.status = 200
    /\ Len(response.filters) > 1

\* the text t occurs in the text s
Contains(s, t) ==
    \E i \in 1..(Len(s) + 1) :
        i + Len(t) - 1 <= Len(s) /\ SubSeq(s, i, i + Len(t) - 1) = t

\* the decimal digits of an id, with its sign
RECURSIVE Decimal(_)
Decimal(n) ==
    IF n < 0 THEN <<"-">> \o Decimal(0 - n)
    ELSE IF n < 10 THEN <<Digits[n + 1]>>
    ELSE Decimal(n \div 10) \o <<Digits[(n % 10) + 1]>>

\* the table has a row of the id
HasRow(filter_id) == \E j \in 1..Len(saved_filters) : saved_filters[j].filter_id = filter_id

\* C21: the get of an id without row is answered 404 with the id in the
\* message and leaves the table as it is; the get of an id with a row is
\* never answered 404
C21_NotFound ==
    [][request'.op = "get" =>
          IF HasRow(request'.filter_id)
          THEN response'.status # 404
          ELSE /\ response'.status = 404
               /\ Contains(response'.detail, Decimal(request'.filter_id))
               /\ saved_filters' = saved_filters]_vars

\* an id past the rows of a table that has rows is answered 404
C21_Witness ==
    /\ request.op = "get"
    /\ response.status = 404
    /\ saved_filters # << >>
    /\ request.filter_id > Len(saved_filters)

\* the row of the table with an id
RowOf(filter_id) ==
    saved_filters[CHOOSE j \in 1..Len(saved_filters) : saved_filters[j].filter_id = filter_id]

\* a rooms text that cannot be parsed back into a list of integers
Unparsable(rooms) == rooms # NoStr /\ json_loads(rooms).kind # "list"

\* C22 (as stated): a get or a list that reads a saved filter whose rooms text
\* cannot be parsed back into a list of integers is answered without error,
\* with rooms null for that filter
C22_UnparsableRoomsReadAsNull ==
    /\ (request.op = "get" /\ HasRow(request.filter_id)
            /\ Unparsable(RowOf(request.filter_id).rooms)) =>
           (response.status = 200 /\ response.body.rooms = NoRooms)
    /\ (request.op = "list" /\ PaginationValid(request.skip, request.limit)) =>
           /\ response.status = 200
           /\ \A i \in 1..Len(response.filters) :
                 Unparsable(RowOf(response.filters[i].filter_id).rooms) =>
                     response.filters[i].rooms = NoRooms

\* what does hold: a text that is no JSON document, the empty text and null
\* are read as rooms null, without error
C22_MalformedRoomsReadAsNull ==
    (request.op = "get" /\ HasRow(request.filter_id)
        /\ Unparsable(RowOf(request.filter_id).rooms)
        /\ json_loads(RowOf(request.filter_id).rooms).kind # "int") =>
       (response.status = 200 /\ response.body.rooms = NoRooms)

\* the get of a row whose rooms text is an int has been answered
C22_Witness ==
    /\ request.op = "get"
    /\ HasRow(request.filter_id)
    /\ json_loads(RowOf(request.filter_id).rooms).kind = "int"
    /\ response.status = 500

\* a list request has been answered with a page
Listed ==
    /\ request.op = "list"
    /\ PaginationValid(request.skip, request.limit)
    /\ response.status = 200

\* the ids of a page
PageIds == { response.filters[i].filter_id : i \in 1..Len(response.filters) }

\* the number of rows left for a page after a skip, at most the limit
PageLength(count, skip, limit) ==
    IF count - skip <= 0 THEN 0
    ELSE IF count - skip > limit THEN limit
    ELSE count - skip

\* C23: a list with skip s and limit l is answered with the saved filters at
\* the positions s .. s+l-1 of the saved filters ordered by created_at, newest
\* first: the page is newest first, s filters at least as new come before it
\* and the others are no newer; the page has at most l filters, none when s
\* is at or past the count, and total is the count of all saved filters
C23_PageOfNewestFirst ==
    Listed =>
        /\ response.total = Len(saved_filters)
        /\ Len(response.filters) = PageLength(Len(saved_filters), request.skip, request.limit)
        /\ Len(response.filters) <= request.limit
        /\ request.limit <= MaxLimit
        /\ request.skip >= Len(saved_filters) => response.filters = << >>
        /\ \A i, j \in 1..Len(response.filters) :
              /\ i < j => response.filters[i].created_at >= response.filters[j].created_at
              /\ response.filters[i].filter_id = response.filters[j].filter_id => i = j
        /\ \A i \in 1..Len(response.filters) :
              /\ HasRow(response.filters[i].filter_id)
              /\ response.filters[i].created_at = RowOf(response.filters[i].filter_id).created_at
        /\ response.filters # << >> =>
              \E Before \in SUBSET { j \in 1..Len(saved_filters) :
                                        saved_filters[j].filter_id \notin PageIds } :
                  /\ Cardinality(Before) = request.skip
                  /\ \A j \in Before, i \in 1..Len(response.filters) :
                        saved_filters[j].created_at >= response.filters[i].created_at
                  /\ \A j \in 1..Len(saved_filters), i \in 1..Len(response.filters) :
                        (j \notin Before /\ saved_filters[j].filter_id \notin PageIds) =>
                            saved_filters[j].created_at <= response.filters[i].created_at

\* the second page of one: the older of two saved filters
C23_Witness ==
    /\ Listed
    /\ request.skip = 1
    /\ request.limit = 1
    /\ Len(response.filters) = 1
    /\ \E j \in 1..Len(saved_filters) :
          saved_filters[j].created_at > response.filters[1].created_at

\* a room count below 1 is among the rooms of a request
RoomBelowOne(rooms) == rooms # NoRooms /\ \E i \in 1..Len(rooms) : rooms[i] < 1

\* a save request with an empty name, a name too long or a room count below 1
BadSaveRequest(fd) ==
    \/ fd.name = << >>
    \/ (fd.name # NoStr /\ Len(fd.name) > MaxNameLength)
    \/ RoomBelowOne(fd.rooms)

\* a response with the status of a client error
ClientError(resp) == resp.status >= 400 /\ resp.status < 500

\* C24: a save request with an empty name, a name longer than 255 characters
\* or a room count below 1, and a search request with a room count below 1,
\* are answered with a client error, and the saved filters are the same after
\* the request as before it
C24_RejectedBeforeWrite ==
    [][/\ (request'.op = "save" /\ BadSaveRequest(request'.filter_data)) =>
              (ClientError(response') /\ saved_filters' = saved_filters)
       /\ (request'.op = "search" /\ RoomBelowOne(request'.filter_data.rooms)) =>
              (ClientError(response') /\ saved_filters' = saved_filters)]_vars

\* a save whose second room count is 0 was rejected, the table holding a row
C24_Witness ==
    /\ request.op = "save"
    /\ request.filter_data.rooms = <<3, 0>>
    /\ ClientError(response)
    /\ saved_filters # << >>
    /\ created # << >>

\* the store failed during a save: the error has reached the caller
SaveFailed(req, resp) ==
    /\ req.op = "save"
    /\ resp.status = 500
    /\ resp.exception \in StoreFaults \ {"none"}

\* C25 (as stated): a save during which the store fails, at the add, the
\* commit or the read-back of the new row, is answered with the error and
\* leaves no saved filter of the request in the table for a later get or list
C25_FailedSaveWritesNothing ==
    [][SaveFailed(request', response') => saved_filters' = saved_filters]_vars

\* what does hold: a save during which the add or the commit fails leaves no
\* saved filter of the request in the table
C25_FailedCommitWritesNothing ==
    [][(SaveFailed(request', response') /\ response'.exception # "db.refresh") =>
           saved_filters' = saved_filters]_vars

\* the read-back of a save has failed and the table holds the row of the
\* request, which no save response reported
C25_Witness ==
    /\ SaveFailed(request, response)
    /\ response.exception = "db.refresh"
    /\ saved_filters # << >>
    /\ saved_filters[Len(saved_filters)].name = request.filter_data.name
    /\ \A i \in 1..Len(created) :
          created[i].filter_id # saved_filters[Len(saved_filters)].filter_id

\* a dimension of a specification is present but vacuous: a range with
\* neither min nor max, an empty rooms list, a city or district that is empty
\* or whitespace only
Vacuous(fd, dim) ==
    IF dim \in {"price_total", "price_per_sqm"}
    THEN fd[dim].present /\ fd[dim].min = None /\ fd[dim].max = None
    ELSE IF dim = "rooms" THEN fd.rooms = << >>
    ELSE fd[dim] # NoStr /\ \A i \in 1..Len(fd[dim]) : fd[dim][i] \in Whitespace

\* C26: a search whose specification has a vacuous dimension is answered as
\* the search of the specification without that dimension
C26_VacuousDimensionIsAbsent ==
    Searched =>
        \A dim \in Dimensions :
            Vacuous(request.filter_data, dim) =>
                response = filter_listings(Without(request.filter_data, dim), listing, location)

\* every dimension but the city district is vacuous, and the district keeps
\* one listing of two
C26_Witness ==
    /\ Searched
    /\ \A dim \in Dimensions \ {"city_district"} : Vacuous(request.filter_data, dim)
    /\ TextActive(request.filter_data.city_district)
    /\ Len(response.listings) = 1
    /\ Len(listing) > 1

\* a listing has neither price per square metre
NoPricePerSqm(l) == l.price_sqm_zl = None /\ l.price_per_sqm_detailed = None

\* C27: while a price-per-area range is active, no listing is returned whose
\* price_sqm_zl and price_per_sqm_detailed are both null, whatever its
\* price_total_zl and area are
C27_NoFallbackInFilter ==
    (Searched /\ RangeActive(request.filter_data.price_per_sqm)) =>
        \A i \in 1..Len(response.listings) : ~NoPricePerSqm(response.listings[i])

\* a listing with neither price per square metre, whose price_total_zl / area
\* the sorter would place inside the range, is left out by a search on that
\* range alone
C27_Witness ==
    /\ Searched
    /\ request.filter_data = [Blank EXCEPT !.price_per_sqm = PriceRange(D(2), D(3))]
    /\ \E id \in StoreIds \ ListingIds(response) :
          /\ NoPricePerSqm(ListingOf(id))
          /\ WithinBounds(get_price_per_sqm(ListingOf(id)), request.filter_data.price_per_sqm)

\* the ids of the saved filters are pairwise distinct
DistinctIds ==
    \A i, j \in 1..Len(saved_filters) :
        saved_filters[i].filter_id = saved_filters[j].filter_id => i = j

\* a step answers a save with success
SaveSucceeds == request'.op = "save" /\ response'.status = 201

\* C29 (as stated): the ids of the saved filters are pairwise distinct, and
\* the number of saved filters, which is the total of a list, grows by one in
\* a step that answers a save with success and stays the same in every other
\* step: a rejected or failed save, a get, a list, a search
C29_OneRowPerSuccessfulSave ==
    /\ []DistinctIds
    /\ [][Len(saved_filters') = Len(saved_filters) + (IF SaveSucceeds THEN 1 ELSE 0)]_vars

\* what does hold: the same, but for a save whose read-back failed
C29_OneRowPerCommittedSave ==
    /\ []DistinctIds
    /\ [][~(SaveFailed(request', response') /\ response'.exception = "db.refresh") =>
             Len(saved_filters') = Len(saved_filters) + (IF SaveSucceeds THEN 1 ELSE 0)]_vars

\* two saved filters in the table, none of them reported by a save response
C29_Witness ==
    /\ Len(saved_filters) > 1
    /\ created = << >>
    /\ SaveFailed(request, response)
    /\ DistinctIds

\* ---------------------------------------------------------------- C30

\* what the call of thread t gives when it runs alone, on a heap that holds
\* nothing but its input
Alone(t) ==
    LET input == original[frames[t].offers]
        r == sort(input, << [i \in 1..Len(input) |-> i] >>, 1,
                  frames[t].sort_by, frames[t].order)
    IN  [raised |-> r.exc,
         value |-> IF r.exc = "none" THEN Deref(r.dicts, r.lists, r.ret) ELSE << >>]

\* the list and dict objects reachable from the list object l
ObjectsOf(l) == [list |-> l, dicts |-> {lists[l][i] : i \in 1..Len(lists[l])}]

Finished(t) == frames[t].pc \in {"returned", "raised"}

\* C30: sort invocations that run interleaved, on the same list or on lists
\* that share nothing, do not affect one another: in every state the two
\* input lists have the value they had before the calls, an invocation that
\* has finished has returned the value (or raised the exception) it gives
\* when it runs alone on its input, and the lists two invocations returned
\* share no object with each other or with an input
C30_InterleavedSortsIndependent ==
    /\ \A l \in {1, 2} : Deref(dicts, lists, l) = original[l]
    /\ \A t \in Threads :
          Finished(t) =>
             /\ frames[t].raised = Alone(t).raised
             /\ frames[t].pc = "returned" =>
                   /\ Deref(dicts, lists, frames[t].result) = Alone(t).value
                   /\ \A l \in {1, 2} :
                         /\ frames[t].result # l
                         /\ ObjectsOf(frames[t].result).dicts \cap ObjectsOf(l).dicts = {}
    /\ \A t, u \in Threads :
          (t # u /\ frames[t].pc = "returned" /\ frames[u].pc = "returned") =>
             /\ frames[t].result # frames[u].result
             /\ ObjectsOf(frames[t].result).dicts
                   \cap ObjectsOf(frames[u].result).dicts = {}

\* both threads sorted the same list of two offers by price, one ascending
\* and one descending, and the copies were made in turns: thread 1 made its
\* list first and copied its last offer after thread 2 copied its first one
C30_Witness ==
    /\ frames # << >>
    /\ \A t \in Threads : frames[t].pc = "returned" /\ frames[t].offers = 1
    /\ frames[1].sort_by = PRICE /\ frames[2].sort_by = PRICE
    /\ frames[1].order = "asc" /\ frames[2].order = "desc"
    /\ Len(original[1]) = 2
    /\ Deref(dicts, lists, frames[1].result) # original[1]
    /\ Deref(dicts, lists, frames[2].result) = original[1]
    /\ frames[1].result < frames[2].result
    /\ \E i, j \in 1..2 : lists[frames[1].result][i] > lists[frames[2].result][j]

====
